---- MODULE Spec2Model ----
(***************************************************************************)
(* State-machine model of the Yellow Network channel service               *)
(* (frontend/lib/services/yellow.ts): the in-memory channel cache and the  *)
(* exported operations openChannel, updateAllocation, closeChannel and     *)
(* getChannel, the coordinator connection (getConnection), and the server  *)
(* signer (frontend/lib/services/yellow-signer.ts).                        *)
(***************************************************************************)
EXTENDS Integers, Sequences, FiniteSets, TLC

VARIABLES
    env_YELLOW_MOCK_MODE,  \* process.env.YELLOW_MOCK_MODE, read once at module load
    env_YELLOW_CLEARNODE_URL, \* process.env.YELLOW_CLEARNODE_URL, read once at module load
    channelCache,          \* Map<string, YellowChannel>: a function on the stored ids
    wsConnection,          \* module-level let wsConnection: an index of sockets, or Null
    connectionPromise,     \* module-level let connectionPromise: an index of sockets, or Null
    sockets,               \* every connection attempt so far, in order: the WebSocket it
                           \* constructed, its connect timer and the promise it settles
    connResult,            \* what the most recent getConnection call returned
    lastCall,              \* the most recent step of a caller: arguments and outcome
    heldRecords,           \* ids whose stored record object a caller holds a reference to
    heldMaps,              \* ids whose stored allocation object a caller holds a reference to
    calls,                 \* per concurrent caller: the exported call it has in flight
    history,               \* the calls begun since the channel was opened, in order
    baseCache,             \* channelCache as it stood when the first of them began
    env_YELLOW_SERVER_PRIVATE_KEY, \* process.env.YELLOW_SERVER_PRIVATE_KEY
    signer,                \* outcome of the most recent getServerSigner call
    signatures,            \* what the returned signer produced: message, signature, signer
    signCount,             \* number of calls of the returned signer
    bounties,              \* Firestore collection 'bounties': a function on the stored ids
    agents,                \* Firestore collection 'agents': a function on the agent ids
    requests,              \* per request slot: the HTTP request being handled, its
                           \* position in the route handler and its response
    started,               \* number of HTTP requests received so far
    createdCount,          \* number of POST /api/bounties requests answered with success
    settleCount            \* per bounty id: number of times an approve request has
                           \* updated and closed the bounty's channel

vars == <<env_YELLOW_MOCK_MODE, env_YELLOW_CLEARNODE_URL, channelCache, wsConnection,
          connectionPromise, sockets, connResult, lastCall, heldRecords, heldMaps,
          calls, history, baseCache, env_YELLOW_SERVER_PRIVATE_KEY, signer, signatures,
          signCount, bounties, agents, requests, started, createdCount, settleCount>>

connVars == <<env_YELLOW_CLEARNODE_URL, wsConnection, connectionPromise, sockets,
              connResult>>

heldVars == <<heldRecords, heldMaps>>

asyncVars == <<calls, history, baseCache>>

signerVars == <<env_YELLOW_SERVER_PRIVATE_KEY, signer, signatures, signCount>>

routeVars == <<bounties, agents, requests, started, createdCount, settleCount>>

\* the variables no channel operation reads or writes
nonChannelVars == <<env_YELLOW_MOCK_MODE, connVars, asyncVars, signerVars, routeVars>>

(***************************************************************************)
(* Bounds of the model.                                                    *)
(***************************************************************************)
MaxDeposit == 1
MaxTime == 1
MaxChannels == 2
MaxElapsed == 0

(***************************************************************************)
(* Values.  A string whose characters matter (an address) is the sequence  *)
(* of its characters after the 0x prefix.                                  *)
(***************************************************************************)
Undefined == "undefined"
\* null, where the other values are indices (1, 2, ...)
Null == 0

Posters == { <<"A", "A">> }
Agents == { <<"a", "a">>, <<"b", "b">> }

toLowerCaseChar(c) ==
    CASE c = "A" -> "a"
      [] c = "B" -> "b"
      [] c = "C" -> "c"
      [] OTHER -> c

toLowerCase(s) == [i \in DOMAIN s |-> toLowerCaseChar(s[i])]

Deposits == 0 .. MaxDeposit
Amounts == 0 .. MaxDeposit
Tokens == { Undefined, "USDC" }
Times == 0 .. MaxTime
\* Date.now() read again within one synchronous call that first read t
ReadClock(t) == { u \in Times : t <= u /\ u <= t + MaxElapsed }
RandomSuffixes == { "k3x9q2" }
HexFractions == { "", "8a3f" }
EnvValues == { Undefined, "true", "false" }

\* the key sets of the allocation maps callers pass: one key per party
AllocationKeySets == { { <<"a", "a">>, <<"b", "b">> } }
AllocationMaps == UNION { [K -> Amounts] : K \in AllocationKeySets }

ChannelIds == { <<"channel", t, r>> : t \in Times, r \in RandomSuffixes }
ChannelIdArgs == ChannelIds \cup { <<"nonexistent", 0, "">> }

StatusRank(s) ==
    CASE s = "PENDING" -> 0
      [] s = "OPEN" -> 1
      [] s = "CLOSING" -> 2
      [] s = "CLOSED" -> 3

RECURSIVE SumOver(_, _)
SumOver(f, K) ==
    IF K = {} THEN 0
    ELSE LET k == CHOOSE x \in K : TRUE
         IN f[k] + SumOver(f, K \ {k})

SumValues(f) == SumOver(f, DOMAIN f)

(***************************************************************************)
(* JavaScript helpers.                                                     *)
(***************************************************************************)
\* const MOCK_MODE = process.env.YELLOW_MOCK_MODE !== 'false'
MOCK_MODE == env_YELLOW_MOCK_MODE # "false"

\* Map.prototype.set
MapSet(m, k, v) == [x \in (DOMAIN m) \cup {k} |-> IF x = k THEN v ELSE m[x]]

\* Map.prototype.has
MapHas(m, k) == k \in DOMAIN m

\* Map.prototype.get, of a key the map holds (an absent key gives undefined,
\* which every caller tests first)
MapGet(m, k) == m[k]

\* Map.prototype.delete
MapDelete(m, k) == [x \in (DOMAIN m) \ {k} |-> m[x]]

\* { [k1]: v1, [k2]: v2 }: a later computed key overwrites an equal earlier one
ObjectLiteral2(k1, v1, k2, v2) == [k \in {k1, k2} |-> IF k = k2 THEN v2 ELSE v1]

\* params.token || 'USDC'
TokenOrDefault(token) == IF token = Undefined THEN "USDC" ELSE token

(***************************************************************************)
(* The mock implementations.  Each returns the cache it leaves, the error  *)
(* it threw ("" when it returned), its return value and the lines it wrote *)
(* to the console.                                                         *)
(***************************************************************************)
openChannelMock(cache, params, t1, r1, t2, r2, t3) ==
    LET channelId == <<"channel", t1, r1>>
        sessionId == <<"session", t2, r2>>
        channel ==
            [ channelId    |-> channelId,
              sessionId    |-> sessionId,
              participants |-> << toLowerCase(params.poster), toLowerCase(params.agent) >>,
              deposit      |-> params.deposit,
              token        |-> TokenOrDefault(params.token),
              status       |-> "OPEN",
              allocation   |-> ObjectLiteral2(toLowerCase(params.poster), params.deposit,
                                              toLowerCase(params.agent), 0),
              createdAt    |-> t3 ]
    IN  [ cache |-> MapSet(cache, channelId, channel),
          threw |-> "",
          channelId |-> channelId,
          sessionId |-> sessionId,
          log |-> << "[MOCK] Yellow channel opened" >> ]

\* Variant: a missing channel is skipped silently instead of throwing.
updateAllocationMock_SilentMiss(cache, channelId, newAllocation) ==
    IF ~MapHas(cache, channelId)
    THEN [ cache |-> cache, threw |-> "", log |-> << >> ]
    ELSE LET channel == MapGet(cache, channelId)
         IN  [ cache |-> MapSet(cache, channelId,
                                [channel EXCEPT !.allocation = newAllocation]),
               threw |-> "",
               log |-> << "[MOCK] Yellow channel allocation updated" >> ]

\* Variant: the record is rebuilt with status OPEN when its allocation is written.
updateAllocationMock_Reopens(cache, channelId, newAllocation) ==
    IF ~MapHas(cache, channelId)
    THEN [ cache |-> cache, threw |-> "Channel not found", log |-> << >> ]
    ELSE LET channel == MapGet(cache, channelId)
         IN  [ cache |-> MapSet(cache, channelId,
                                [channel EXCEPT !.allocation = newAllocation,
                                                !.status = "OPEN"]),
               threw |-> "",
               log |-> << "[MOCK] Yellow channel allocation updated" >> ]

\* Variant: the new allocation is written into every stored record.
updateAllocationMock_AllRecords(cache, channelId, newAllocation) ==
    IF ~MapHas(cache, channelId)
    THEN [ cache |-> cache, threw |-> "Channel not found", log |-> << >> ]
    ELSE [ cache |-> [id \in DOMAIN cache |->
                        [cache[id] EXCEPT !.allocation = newAllocation]],
           threw |-> "",
           log |-> << "[MOCK] Yellow channel allocation updated" >> ]

updateAllocationMock(cache, channelId, newAllocation) ==
    IF ~MapHas(cache, channelId)
    THEN [ cache |-> cache, threw |-> "Channel not found", log |-> << >> ]
    ELSE LET channel == MapGet(cache, channelId)
         IN  [ cache |-> MapSet(cache, channelId,
                                [channel EXCEPT !.allocation = newAllocation]),
               threw |-> "",
               log |-> << "[MOCK] Yellow channel allocation updated" >> ]

\* Variant: the transaction reference is produced but the status is not written.
closeChannelMock_NoStatus(cache, channelId, h1, h2) ==
    IF ~MapHas(cache, channelId)
    THEN [ cache |-> cache, threw |-> "Channel not found", txHash |-> << >>,
           log |-> << >> ]
    ELSE [ cache |-> cache,
           threw |-> "",
           txHash |-> <<"0x", h1, h2>>,
           log |-> << "[MOCK] Yellow channel closed" >> ]

\* Variant: a closed channel is evicted from the cache.
closeChannelMock_Evicts(cache, channelId, h1, h2) ==
    IF ~MapHas(cache, channelId)
    THEN [ cache |-> cache, threw |-> "Channel not found", txHash |-> << >>,
           log |-> << >> ]
    ELSE [ cache |-> MapDelete(cache, channelId),
           threw |-> "",
           txHash |-> <<"0x", h1, h2>>,
           log |-> << "[MOCK] Yellow channel closed" >> ]

\* Variant: closing leaves the record in the intermediate status CLOSING.
closeChannelMock_Closing(cache, channelId, h1, h2) ==
    IF ~MapHas(cache, channelId)
    THEN [ cache |-> cache, threw |-> "Channel not found", txHash |-> << >>,
           log |-> << >> ]
    ELSE LET channel == MapGet(cache, channelId)
         IN  [ cache |-> MapSet(cache, channelId, [channel EXCEPT !.status = "CLOSING"]),
               threw |-> "",
               txHash |-> <<"0x", h1, h2>>,
               log |-> << "[MOCK] Yellow channel closed" >> ]

closeChannelMock(cache, channelId, h1, h2) ==
    IF ~MapHas(cache, channelId)
    THEN [ cache |-> cache, threw |-> "Channel not found", txHash |-> << >>,
           log |-> << >> ]
    ELSE LET channel == MapGet(cache, channelId)
         IN  [ cache |-> MapSet(cache, channelId, [channel EXCEPT !.status = "CLOSED"]),
               threw |-> "",
               txHash |-> <<"0x", h1, h2>>,
               log |-> << "[MOCK] Yellow channel closed" >> ]

(***************************************************************************)
(* The exported operations.                                                *)
(***************************************************************************)
\* Variant: with simulation switched off the unimplemented path throws.
openChannel_ThrowsInRealMode(cache, params, t1, r1, t2, r2, t3) ==
    IF MOCK_MODE
    THEN openChannelMock(cache, params, t1, r1, t2, r2, t3)
    ELSE [ cache |-> cache,
           threw |-> "Yellow SDK production mode not yet implemented",
           channelId |-> << >>,
           sessionId |-> << >>,
           log |-> << >> ]

openChannel(cache, params, t1, r1, t2, r2, t3) ==
    IF MOCK_MODE
    THEN openChannelMock(cache, params, t1, r1, t2, r2, t3)
    ELSE LET out == openChannelMock(cache, params, t1, r1, t2, r2, t3)
         IN  [out EXCEPT !.log =
                << "Yellow SDK production mode not yet implemented, using mock" >> \o @]

updateAllocation(cache, channelId, newAllocation) ==
    IF MOCK_MODE
    THEN updateAllocationMock(cache, channelId, newAllocation)
    ELSE updateAllocationMock(cache, channelId, newAllocation)

closeChannel(cache, channelId, h1, h2) ==
    IF MOCK_MODE
    THEN closeChannelMock(cache, channelId, h1, h2)
    ELSE closeChannelMock(cache, channelId, h1, h2)

\* channelCache.get(channelId) || null
NullChannel == [ null |-> TRUE ]

getChannel(cache, channelId) ==
    IF ~MapHas(cache, channelId)
    THEN NullChannel
    ELSE MapGet(cache, channelId)

(***************************************************************************)
(* State machine.                                                          *)
(***************************************************************************)
NoCall ==
    [ op |-> "none", channelId |-> <<"nonexistent", 0, "">>, sessionId |-> << >>,
      poster |-> << >>, agent |-> << >>, deposit |-> 0, newAllocation |-> << >>,
      threw |-> "", txHash |-> << >>, log |-> << >> ]

\* Concurrent callers of the exported async functions.  A call is
\*   pc  "idle"       the caller has no call in flight
\*       "called"     the function was entered
\*       "suspended"  its body waits at an await
\*       "settled"    its body returned or threw; the awaiting caller has not
\*                    resumed yet
Callers == { "c1", "c2" }

IdleCall ==
    [ op |-> "none", channelId |-> <<"nonexistent", 0, "">>, newAllocation |-> << >>,
      pc |-> "idle", threw |-> "" ]

\* getServerSigner has not been called yet
NoSigner == [ kind |-> "none", threw |-> "", log |-> << >> ]

\* no getConnection call has returned yet
NoResult == << "none", Null >>

\* HTTP request slots, agent documents and bounty ids of the bounty routes
ReqIds == { "r1", "r2" }
AgentIds == { "agent1" }

IdleRequest ==
    [ route |-> "none", pc |-> "idle", id |-> << >>, address |-> << >>,
      approved |-> FALSE, reason |-> "", bounty |-> [ exists |-> FALSE ],
      channelId |-> << >>, sessionId |-> << >>, now |-> 0,
      http |-> 0, code |-> "" ]

\* no request received, no bounty stored, every agent registered without jobs
InitRoutes ==
    /\ bounties = << >>
    /\ agents = [a \in AgentIds |-> [ totalJobs |-> 0 ]]
    /\ requests = [r \in ReqIds |-> IdleRequest]
    /\ started = 0
    /\ createdCount = 0
    /\ settleCount = << >>

\* The channel operations never read YELLOW_CLEARNODE_URL: it is left unset here.
Init ==
    /\ env_YELLOW_MOCK_MODE \in EnvValues
    /\ channelCache = << >>
    /\ env_YELLOW_CLEARNODE_URL = Undefined
    /\ wsConnection = Null
    /\ connectionPromise = Null
    /\ sockets = << >>
    /\ connResult = NoResult
    /\ lastCall = NoCall
    /\ heldRecords = {}
    /\ heldMaps = {}
    /\ calls = [c \in Callers |-> IdleCall]
    /\ history = << >>
    /\ baseCache = << >>
    /\ env_YELLOW_SERVER_PRIVATE_KEY = Undefined
    /\ signer = NoSigner
    /\ signatures = {}
    /\ signCount = 0
    /\ InitRoutes

OpenChannelCall(limit) ==
    \E poster \in Posters, agent \in Agents, deposit \in Deposits, token \in Tokens,
       t1 \in Times, r1 \in RandomSuffixes, r2 \in RandomSuffixes :
      \E t2 \in ReadClock(t1), t3 \in ReadClock(t1) :
        LET params == [poster |-> poster, agent |-> agent, deposit |-> deposit, token |-> token]
            out == openChannel(channelCache, params, t1, r1, t2, r2, t3)
        IN  /\ t2 <= t3
            /\ Cardinality(DOMAIN out.cache) <= limit
            /\ channelCache' = out.cache
            /\ lastCall' = [NoCall EXCEPT !.op = "openChannel",
                                          !.poster = poster,
                                          !.agent = agent,
                                          !.deposit = deposit,
                                          !.channelId = IF out.threw = "" THEN out.channelId ELSE @,
                                          !.sessionId = IF out.threw = "" THEN out.sessionId ELSE @,
                                          !.threw = out.threw,
                                          !.log = out.log]

OpenChannel ==
    /\ OpenChannelCall(MaxChannels)
    /\ UNCHANGED <<nonChannelVars, heldVars>>

UpdateAllocationCall ==
    \E channelId \in ChannelIdArgs, newAllocation \in AllocationMaps :
        LET out == updateAllocation(channelCache, channelId, newAllocation)
        IN  /\ channelCache' = out.cache
            /\ lastCall' = [NoCall EXCEPT !.op = "updateAllocation",
                                          !.channelId = channelId,
                                          !.newAllocation = newAllocation,
                                          !.threw = out.threw,
                                          !.log = out.log]

UpdateAllocation ==
    /\ UpdateAllocationCall
    /\ UNCHANGED <<nonChannelVars, heldVars>>

CloseChannelCall ==
    \E channelId \in ChannelIdArgs, h1 \in HexFractions, h2 \in HexFractions :
        LET out == closeChannel(channelCache, channelId, h1, h2)
        IN  /\ channelCache' = out.cache
            /\ lastCall' = [NoCall EXCEPT !.op = "closeChannel",
                                          !.channelId = channelId,
                                          !.threw = out.threw,
                                          !.txHash = out.txHash,
                                          !.log = out.log]

CloseChannel ==
    /\ CloseChannelCall
    /\ UNCHANGED <<nonChannelVars, heldVars>>

Next == OpenChannel \/ UpdateAllocation \/ CloseChannel

Spec == Init /\ [][Next]_vars

(***************************************************************************)
(* References handed to callers.  A JavaScript object is shared by         *)
(* reference: getChannel returns the object the cache holds, and           *)
(* updateAllocationMock stores the very map object its caller passed.      *)
(* heldRecords and heldMaps are the ids under which the cache still holds  *)
(* an object a caller has a reference to; a write through such a reference *)
(* is a write to the stored object.  An openChannel that stores a new      *)
(* object under an id detaches the references to the old one.              *)
(***************************************************************************)
MaxHeldChannels == 1

Statuses == { "PENDING", "OPEN", "CLOSING", "CLOSED" }

HolderOpenChannel ==
    /\ OpenChannelCall(MaxHeldChannels)
    /\ heldRecords' = heldRecords \ {lastCall'.channelId}
    /\ heldMaps' = heldMaps \ {lastCall'.channelId}
    /\ UNCHANGED nonChannelVars

\* channel.allocation = newAllocation: the caller keeps the map it passed
HolderUpdateAllocation ==
    /\ UpdateAllocationCall
    /\ heldMaps' = IF lastCall'.threw = ""
                   THEN heldMaps \cup {lastCall'.channelId}
                   ELSE heldMaps
    /\ UNCHANGED <<nonChannelVars, heldRecords>>

HolderCloseChannel ==
    /\ CloseChannelCall
    /\ UNCHANGED <<nonChannelVars, heldVars>>

\* const channel = await getChannel(channelId)
GetChannel ==
    \E channelId \in ChannelIdArgs :
        LET out == getChannel(channelCache, channelId)
        IN  /\ lastCall' = [NoCall EXCEPT !.op = "getChannel", !.channelId = channelId]
            /\ heldRecords' = IF out # NullChannel
                              THEN heldRecords \cup {channelId}
                              ELSE heldRecords
            /\ UNCHANGED <<channelCache, nonChannelVars, heldMaps>>

\* the caller assigns to a field of the object getChannel returned
WriteReturnedChannel ==
    \E channelId \in heldRecords, status \in Statuses :
        /\ channelCache' = [channelCache EXCEPT ![channelId].status = status]
        /\ lastCall' = [NoCall EXCEPT !.op = "channel.status = ...",
                                      !.channelId = channelId]
        /\ UNCHANGED <<nonChannelVars, heldVars>>

\* the caller assigns to an entry of the map it passed to updateAllocation
WritePassedAllocation ==
    \E channelId \in heldMaps :
      \E k \in DOMAIN channelCache[channelId].allocation, v \in Amounts :
        /\ channelCache' = [channelCache EXCEPT ![channelId].allocation[k] = v]
        /\ lastCall' = [NoCall EXCEPT !.op = "newAllocation[k] = ...",
                                      !.channelId = channelId]
        /\ UNCHANGED <<nonChannelVars, heldVars>>

NextHolder ==
    \/ HolderOpenChannel
    \/ HolderUpdateAllocation
    \/ HolderCloseChannel
    \/ GetChannel
    \/ WriteReturnedChannel
    \/ WritePassedAllocation

SpecHolder == Init /\ [][NextHolder]_vars

(***************************************************************************)
(* Concurrent calls.  Calling an async function runs its body at once, up  *)
(* to its first await or its return; other code runs only while the call   *)
(* is suspended at an await, or after it settled and before the awaiting   *)
(* caller resumes.  updateAllocationRun and closeChannelRun give one such  *)
(* uninterrupted run of the body: the cache and the call it leaves.        *)
(***************************************************************************)
MaxCalls == 3

\* Variant: the body awaits between reading the record and storing the
\* rebuilt record.
updateAllocationRun_AwaitsBetween(cache, call) ==
    IF call.pc = "called"
    THEN IF ~MapHas(cache, call.channelId)
         THEN [ cache |-> cache,
                call |-> [call EXCEPT !.pc = "settled", !.threw = "Channel not found"] ]
         ELSE [ cache |-> cache,
                call |-> [ op |-> call.op, channelId |-> call.channelId,
                           newAllocation |-> call.newAllocation,
                           pc |-> "suspended", threw |-> "",
                           channel |-> MapGet(cache, call.channelId) ] ]
    ELSE [ cache |-> MapSet(cache, call.channelId,
                            [call.channel EXCEPT !.allocation = call.newAllocation]),
           call |-> [ op |-> call.op, channelId |-> call.channelId,
                      newAllocation |-> call.newAllocation,
                      pc |-> "settled", threw |-> "" ] ]

\* the body of updateAllocation has no await: one run takes it from entry to
\* its return or throw
updateAllocationRun(cache, call) ==
    LET out == updateAllocation(cache, call.channelId, call.newAllocation)
    IN  [ cache |-> out.cache,
          call |-> [call EXCEPT !.pc = "settled", !.threw = out.threw] ]

\* the body of closeChannel has no await either
closeChannelRun(cache, call, h1, h2) ==
    LET out == closeChannel(cache, call.channelId, h1, h2)
    IN  [ cache |-> out.cache,
          call |-> [call EXCEPT !.pc = "settled", !.threw = out.threw] ]

\* the next uninterrupted run of a call in flight
Advance(cache, call, h1, h2) ==
    IF call.pc = "settled"
    THEN [ cache |-> cache, call |-> IdleCall ]
    ELSE IF call.op = "updateAllocation"
    THEN updateAllocationRun(cache, call)
    ELSE closeChannelRun(cache, call, h1, h2)

InitAsync ==
    /\ env_YELLOW_MOCK_MODE \in EnvValues
    /\ env_YELLOW_CLEARNODE_URL = Undefined
    /\ channelCache = << >>
    /\ wsConnection = Null
    /\ connectionPromise = Null
    /\ sockets = << >>
    /\ connResult = NoResult
    /\ lastCall = NoCall
    /\ heldRecords = {}
    /\ heldMaps = {}
    /\ calls = [c \in Callers |-> IdleCall]
    /\ history = << >>
    /\ baseCache = << >>
    /\ env_YELLOW_SERVER_PRIVATE_KEY = Undefined
    /\ signer = NoSigner
    /\ signatures = {}
    /\ signCount = 0
    /\ InitRoutes

asyncFrame == <<env_YELLOW_MOCK_MODE, connVars, heldVars, signerVars, routeVars>>

\* the channel the concurrent calls work on is opened before any of them
AsyncOpenChannel ==
    /\ history = << >>
    /\ OpenChannelCall(1)
    /\ baseCache' = channelCache'
    /\ UNCHANGED <<calls, history, asyncFrame>>

\* caller c calls updateAllocation or closeChannel without waiting for the
\* calls of the other callers
Invoke(c) ==
    /\ calls[c].pc = "idle"
    /\ Len(history) < MaxCalls
    /\ \E op \in { "updateAllocation", "closeChannel" },
          channelId \in (DOMAIN channelCache) \cup { <<"nonexistent", 0, "">> },
          newAllocation \in AllocationMaps, h1 \in HexFractions, h2 \in HexFractions :
         LET call == [ op |-> op, channelId |-> channelId,
                       newAllocation |-> IF op = "updateAllocation"
                                         THEN newAllocation ELSE << >>,
                       pc |-> "called", threw |-> "" ]
             out == Advance(channelCache, call, h1, h2)
         IN  /\ channelCache' = out.cache
             /\ calls' = [calls EXCEPT ![c] = out.call]
             /\ history' = Append(history, call)
    /\ UNCHANGED <<baseCache, lastCall, asyncFrame>>

\* the call of caller c runs on: its body resumes after an await, or the
\* caller resumes after the call settled
Resume(c) ==
    /\ calls[c].pc # "idle"
    /\ \E h1 \in HexFractions, h2 \in HexFractions :
         LET out == Advance(channelCache, calls[c], h1, h2)
         IN  /\ channelCache' = out.cache
             /\ calls' = [calls EXCEPT ![c] = out.call]
    /\ UNCHANGED <<history, baseCache, lastCall, asyncFrame>>

NextAsync ==
    \/ AsyncOpenChannel
    \/ \E c \in Callers : Invoke(c)
    \/ \E c \in Callers : Resume(c)

SpecAsync == InitAsync /\ [][NextAsync]_vars

(***************************************************************************)
(* The coordinator connection: getConnection and the callbacks it installs *)
(* on the WebSocket it constructs.  An entry of sockets is one connection  *)
(* attempt:                                                                *)
(*   readyState  the socket's readyState; "NONE" when the constructor      *)
(*               threw and no socket exists.  "CLOSING" stands for every   *)
(*               state between the start of closing (close() called, or    *)
(*               the connection failed) and the delivery of the close      *)
(*               event; the code only compares readyState with OPEN.       *)
(*   promise     state of the promise built at line 76                     *)
(*   reason      what the promise was rejected with                        *)
(*   timer       the 10 s timer of line 100 has not fired yet              *)
(*   errored     the error event was delivered                             *)
(* Callbacks run to completion; between two of them any other callback or  *)
(* getConnection call may run.                                             *)
(***************************************************************************)
MaxSockets == 3

ClearnodeUrls == { Undefined, "", "wss://clearnode.example/ws", "clearnode.example/ws" }

\* process.env.YELLOW_CLEARNODE_URL || 'wss://clearnet-sandbox.yellow.com/ws'
YELLOW_WS_URL ==
    IF env_YELLOW_CLEARNODE_URL \in { Undefined, "" }
    THEN "wss://clearnet-sandbox.yellow.com/ws"
    ELSE env_YELLOW_CLEARNODE_URL

UrlScheme(url) ==
    CASE url = "wss://clearnet-sandbox.yellow.com/ws" -> "wss"
      [] url = "wss://clearnode.example/ws" -> "wss"
      [] OTHER -> ""

\* new WebSocket(url) throws a SyntaxError for a url that is not ws: or wss:
WebSocketThrows(url) == UrlScheme(url) \notin { "ws", "wss" }

\* resolve(ws) / reject(error): a settled promise stays as it is
Resolve(attempt) ==
    IF attempt.promise = "pending" THEN [attempt EXCEPT !.promise = "resolved"] ELSE attempt

Reject(attempt, reason) ==
    IF attempt.promise = "pending"
    THEN [attempt EXCEPT !.promise = "rejected", !.reason = reason]
    ELSE attempt

\* ws.close()
Close(attempt) ==
    IF attempt.readyState \in { "CONNECTING", "OPEN" }
    THEN [attempt EXCEPT !.readyState = "CLOSING"]
    ELSE attempt

InitConn ==
    /\ env_YELLOW_MOCK_MODE = Undefined
    /\ env_YELLOW_CLEARNODE_URL \in ClearnodeUrls
    /\ channelCache = << >>
    /\ wsConnection = Null
    /\ connectionPromise = Null
    /\ sockets = << >>
    /\ connResult = NoResult
    /\ lastCall = NoCall
    /\ heldRecords = {}
    /\ heldMaps = {}
    /\ calls = [c \in Callers |-> IdleCall]
    /\ history = << >>
    /\ baseCache = << >>
    /\ env_YELLOW_SERVER_PRIVATE_KEY = Undefined
    /\ signer = NoSigner
    /\ signatures = {}
    /\ signCount = 0
    /\ InitRoutes

connFrame == <<env_YELLOW_MOCK_MODE, env_YELLOW_CLEARNODE_URL, channelCache, lastCall,
               heldVars, asyncVars, signerVars, routeVars>>

GetConnection ==
    IF wsConnection # Null /\ sockets[wsConnection].readyState = "OPEN"
    THEN /\ connResult' = << "socket", wsConnection >>
         /\ UNCHANGED <<wsConnection, connectionPromise, sockets, connFrame>>
    ELSE IF connectionPromise # Null
    THEN /\ connResult' = << "promise", connectionPromise >>
         /\ UNCHANGED <<wsConnection, connectionPromise, sockets, connFrame>>
    ELSE /\ Len(sockets) < MaxSockets
         /\ sockets' =
              IF WebSocketThrows(YELLOW_WS_URL)
              THEN Append(sockets, [ readyState |-> "NONE", promise |-> "rejected",
                                     reason |-> "SyntaxError", timer |-> FALSE,
                                     errored |-> FALSE ])
              ELSE Append(sockets, [ readyState |-> "CONNECTING", promise |-> "pending",
                                     reason |-> "", timer |-> TRUE,
                                     errored |-> FALSE ])
         \* the executor has run (and its catch has cleared connectionPromise)
         \* before the new promise is assigned
         /\ connectionPromise' = Len(sockets) + 1
         /\ connResult' = << "promise", Len(sockets) + 1 >>
         /\ UNCHANGED <<wsConnection, connFrame>>

\* ws.onopen
OnOpen(s) ==
    /\ s \in DOMAIN sockets
    /\ sockets[s].readyState = "CONNECTING"
    /\ wsConnection' = s
    /\ connectionPromise' = Null
    /\ sockets' = [sockets EXCEPT ![s] = Resolve([@ EXCEPT !.readyState = "OPEN"])]
    /\ UNCHANGED <<connResult, connFrame>>

\* ws.onerror: the connection failed; the close event follows
OnError(s) ==
    /\ s \in DOMAIN sockets
    /\ sockets[s].readyState \in { "CONNECTING", "OPEN", "CLOSING" }
    /\ ~sockets[s].errored
    /\ connectionPromise' = Null
    /\ sockets' = [sockets EXCEPT ![s] = Reject(Close([@ EXCEPT !.errored = TRUE]), "error")]
    /\ UNCHANGED <<wsConnection, connResult, connFrame>>

\* ws.onclose: the peer closed an open socket, or a closing socket is closed
OnClose(s) ==
    /\ s \in DOMAIN sockets
    /\ sockets[s].readyState \in { "OPEN", "CLOSING" }
    /\ wsConnection' = Null
    /\ connectionPromise' = Null
    /\ sockets' = [sockets EXCEPT ![s].readyState = "CLOSED"]
    /\ UNCHANGED <<connResult, connFrame>>

\* Variant: the timer closes the socket and rejects but leaves connectionPromise.
TimerFires_KeepsPromise(s) ==
    /\ s \in DOMAIN sockets
    /\ sockets[s].timer
    /\ \A r \in 1 .. (s - 1) : ~sockets[r].timer
    /\ IF sockets[s].readyState # "OPEN"
       THEN /\ sockets' = [sockets EXCEPT ![s] =
                             Reject(Close([@ EXCEPT !.timer = FALSE]), "Connection timeout")]
            /\ UNCHANGED connectionPromise
       ELSE /\ sockets' = [sockets EXCEPT ![s].timer = FALSE]
            /\ UNCHANGED connectionPromise
    /\ UNCHANGED <<wsConnection, connResult, connFrame>>

\* Variant: the timer closes the socket and clears connectionPromise without
\* rejecting.
TimerFires_NoReject(s) ==
    /\ s \in DOMAIN sockets
    /\ sockets[s].timer
    /\ \A r \in 1 .. (s - 1) : ~sockets[r].timer
    /\ IF sockets[s].readyState # "OPEN"
       THEN /\ sockets' = [sockets EXCEPT ![s] = Close([@ EXCEPT !.timer = FALSE])]
            /\ connectionPromise' = Null
       ELSE /\ sockets' = [sockets EXCEPT ![s].timer = FALSE]
            /\ UNCHANGED connectionPromise
    /\ UNCHANGED <<wsConnection, connResult, connFrame>>

\* the setTimeout callback; timers of equal delay fire in the order they were set
TimerFires(s) ==
    /\ s \in DOMAIN sockets
    /\ sockets[s].timer
    /\ \A r \in 1 .. (s - 1) : ~sockets[r].timer
    /\ IF sockets[s].readyState # "OPEN"
       THEN /\ sockets' = [sockets EXCEPT ![s] =
                             Reject(Close([@ EXCEPT !.timer = FALSE]), "Connection timeout")]
            /\ connectionPromise' = Null
       ELSE /\ sockets' = [sockets EXCEPT ![s].timer = FALSE]
            /\ UNCHANGED connectionPromise
    /\ UNCHANGED <<wsConnection, connResult, connFrame>>

NextConn ==
    \/ GetConnection
    \/ \E s \in 1 .. MaxSockets : OnOpen(s)
    \/ \E s \in 1 .. MaxSockets : OnError(s)
    \/ \E s \in 1 .. MaxSockets : OnClose(s)
    \/ \E s \in 1 .. MaxSockets : TimerFires(s)

SpecConn == InitConn /\ [][NextConn]_vars

\* The event loop runs every timer callback that is due: an armed connect timer
\* fires.  Nothing is assumed about the arrival of open, error or close events.
SpecConnFair ==
    /\ InitConn
    /\ [][NextConn]_vars
    /\ \A s \in 1 .. MaxSockets : WF_vars(TimerFires(s))

(***************************************************************************)
(* The server signer (frontend/lib/services/yellow-signer.ts).  A message  *)
(* is the sequence of its UTF-8 bytes, a signature the sequence of its     *)
(* characters.                                                             *)
(***************************************************************************)
MaxSigns == 3

\* SHA-256 gives 32 bytes; hashHex.slice(0, 64)
DigestBytes == 32
SliceEnd == 64

PrivateKeyValues ==
    { Undefined,
      "",
      "0x1234",
      "0x0000000000000000000000000000000000000000000000000000000000000000",
      "ac0974bec39a17e36ba4a6b4d238ff944bacb478cbed5efcae784d7bf4f2ff80",
      "0xac0974bec39a17e36ba4a6b4d238ff944bacb478cbed5efcae784d7bf4f2ff80" }

\* privateKeyToAccount(key) drops the first two characters and throws unless
\* the rest is 64 hex digits of a number in 1 .. n-1 (n the secp256k1 order)
privateKeyToAccountThrows(key) ==
    key # "0xac0974bec39a17e36ba4a6b4d238ff944bacb478cbed5efcae784d7bf4f2ff80"

\* new TextEncoder().encode(message) of "", "a", "ab", "ba", "p"
Messages == { << >>, << 97 >>, << 97, 98 >>, << 98, 97 >>, << 112 >> }

\* crypto.subtle.digest('SHA-256', bytes): a fixed function from the bytes of
\* the message to DigestBytes bytes.  SHA-256 itself is not reproduced; this
\* stand-in keeps what the code relies on: the result depends on the bytes only
\* and has DigestBytes bytes, some of them below 16.
RECURSIVE Absorb(_, _, _)
Absorb(h, bytes, i) ==
    IF i > Len(bytes) THEN h
    ELSE Absorb((h * 31 + bytes[i]) % 65521, bytes, i + 1)

Digest(bytes) ==
    LET h == Absorb(7, bytes, 1)
    IN  [i \in 1 .. DigestBytes |-> ((h + i) * (2 * i + 1)) % 256]

HexDigits == << "0", "1", "2", "3", "4", "5", "6", "7", "8", "9",
               "a", "b", "c", "d", "e", "f" >>

\* b.toString(16)
ToString16(b) ==
    IF b < 16 THEN << HexDigits[b + 1] >>
    ELSE << HexDigits[(b \div 16) + 1], HexDigits[(b % 16) + 1] >>

\* str.padStart(2, '0')
PadStart2(str) == IF Len(str) < 2 THEN << "0" >> \o str ELSE str

\* array.join('')
RECURSIVE Join(_, _)
Join(strs, i) == IF i > Len(strs) THEN << >> ELSE strs[i] \o Join(strs, i + 1)

\* str.slice(0, end)
Slice0(str, end) == SubSeq(str, 1, IF end < Len(str) THEN end ELSE Len(str))

\* Variant: the bytes are written in hex without padding to two digits.
mockSigner_NoPad(message) ==
    LET hashArray == Digest(message)
        hashHex == Join([i \in DOMAIN hashArray |-> ToString16(hashArray[i])], 1)
    IN  << "0", "x" >> \o hashHex \o Slice0(hashHex, SliceEnd)

\* Variant: the number of earlier calls is mixed into the hashed bytes.
mockSigner_Salted(message) ==
    LET hashArray == Digest(message \o << signCount >>)
        hashHex == Join([i \in DOMAIN hashArray |-> PadStart2(ToString16(hashArray[i]))], 1)
    IN  << "0", "x" >> \o hashHex \o Slice0(hashHex, SliceEnd)

mockSigner(message) ==
    LET hashArray == Digest(message)
        hashHex == Join([i \in DOMAIN hashArray |-> PadStart2(ToString16(hashArray[i]))], 1)
    IN  << "0", "x" >> \o hashHex \o Slice0(hashHex, SliceEnd)

\* account.signMessage({ message }): the ECDSA signature is not reproduced; it
\* is a value fixed by the key and the message
accountSignMessage(key, message) == << "signature", key, message >>

\* Variant: the failure to build the account is not caught.
getServerSigner_Rethrows(privateKey) ==
    IF privateKey \in { Undefined, "" }
    THEN [ kind |-> "mockSigner", threw |-> "",
           log |-> << "YELLOW_SERVER_PRIVATE_KEY not set, using mock signer" >> ]
    ELSE IF privateKeyToAccountThrows(privateKey)
    THEN [ kind |-> "none", threw |-> "InvalidPrivateKey", log |-> << >> ]
    ELSE [ kind |-> "account.signMessage", threw |-> "", log |-> << >> ]

getServerSigner(privateKey) ==
    IF privateKey \in { Undefined, "" }
    THEN [ kind |-> "mockSigner", threw |-> "",
           log |-> << "YELLOW_SERVER_PRIVATE_KEY not set, using mock signer" >> ]
    ELSE IF privateKeyToAccountThrows(privateKey)
    THEN [ kind |-> "mockSigner", threw |-> "",
           log |-> << "Failed to create server signer:" >> ]
    ELSE [ kind |-> "account.signMessage", threw |-> "", log |-> << >> ]

InitSigner ==
    /\ env_YELLOW_MOCK_MODE = Undefined
    /\ env_YELLOW_CLEARNODE_URL = Undefined
    /\ channelCache = << >>
    /\ wsConnection = Null
    /\ connectionPromise = Null
    /\ sockets = << >>
    /\ connResult = NoResult
    /\ lastCall = NoCall
    /\ heldRecords = {}
    /\ heldMaps = {}
    /\ calls = [c \in Callers |-> IdleCall]
    /\ history = << >>
    /\ baseCache = << >>
    /\ env_YELLOW_SERVER_PRIVATE_KEY \in PrivateKeyValues
    /\ signer = NoSigner
    /\ signatures = {}
    /\ signCount = 0
    /\ InitRoutes

signerFrame == <<env_YELLOW_MOCK_MODE, connVars, channelCache, lastCall, heldVars,
                 asyncVars, routeVars, env_YELLOW_SERVER_PRIVATE_KEY>>

GetServerSigner ==
    /\ signer' = getServerSigner(env_YELLOW_SERVER_PRIVATE_KEY)
    /\ UNCHANGED <<signatures, signCount, signerFrame>>

\* const signature = await signer(message), with the signer getServerSigner returned
Sign ==
    /\ signer.kind # "none"
    /\ signCount < MaxSigns
    /\ \E message \in Messages :
         LET signature == IF signer.kind = "mockSigner"
                          THEN mockSigner(message)
                          ELSE accountSignMessage(env_YELLOW_SERVER_PRIVATE_KEY, message)
         IN  signatures' = signatures \cup
                 { [ message |-> message, signature |-> signature, kind |-> signer.kind ] }
    /\ signCount' = signCount + 1
    /\ UNCHANGED <<signer, signerFrame>>

NextSigner == GetServerSigner \/ Sign

SpecSigner == InitSigner /\ [][NextSigner]_vars

(***************************************************************************)
(* The bounty routes: POST /api/bounties (create), POST                    *)
(* /api/bounties/:id/approve and POST /api/bounties/:id/dispute.  A route  *)
(* handler is an async function: each of its actions below is one run      *)
(* between two awaits, and the handlers of other requests run in between.  *)
(* A Firestore read or write is the step in which the store serves it.     *)
(* Request bodies carry a valid title, description, skills, requirements   *)
(* and type; reward and the addresses vary.                                *)
(***************************************************************************)
MaxRequests == 3

BountyIds == { << "bounty", t >> : t \in Times }

ZeroAddress == << "0", "0" >>

\* isAddress(a): every character after 0x is a hex digit
IsHexChar(c) == c \in { "0", "1", "2", "3", "4", "5", "6", "7", "8", "9",
                        "a", "b", "c", "d", "e", "f", "A", "B", "C", "D", "E", "F" }

isAddress(a) == a # << >> /\ \A i \in DOMAIN a : IsHexChar(a[i])

\* addresses sent in request bodies; << >> is a body without the field
CreatePosters == { << "A", "A" >>, << "z", "z" >> }
CreateRewards == { 0, 1 }
ApproveCallers == { << >>, << "A", "A" >>, << "b", "b" >> }
DisputeInitiators == { << "z", "z" >>, << "A", "A" >>, << "b", "b" >>, << "c", "c" >> }
DisputeReasons == { " ", "late" }

\* reason.trim()
Trim(str) == IF str = " " THEN "" ELSE str

\* a snapshot of a document that does not exist
NoDoc == [ exists |-> FALSE ]

\* getDoc(ref)
GetDoc(collection, id) == IF id \in DOMAIN collection THEN collection[id] ELSE NoDoc

\* updateDoc(ref, patch): the named fields are replaced, the others kept
UpdateDoc(collection, id, patch) ==
    [collection EXCEPT ![id] =
        [f \in DOMAIN @ |-> IF f \in DOMAIN patch THEN patch[f] ELSE @[f]]]

\* setDoc(ref, document): the document is written whether or not one exists
SetDoc(collection, id, document) == MapSet(collection, id, document)

\* NextResponse.json(...)
Respond(req, http, code) == [req EXCEPT !.pc = "done", !.http = http, !.code = code]

CountOf(counts, id) == IF id \in DOMAIN counts THEN counts[id] ELSE 0

InitRoute ==
    /\ env_YELLOW_MOCK_MODE = Undefined
    /\ env_YELLOW_CLEARNODE_URL = Undefined
    /\ channelCache = << >>
    /\ wsConnection = Null
    /\ connectionPromise = Null
    /\ sockets = << >>
    /\ connResult = NoResult
    /\ lastCall = NoCall
    /\ heldRecords = {}
    /\ heldMaps = {}
    /\ calls = [c \in Callers |-> IdleCall]
    /\ history = << >>
    /\ baseCache = << >>
    /\ env_YELLOW_SERVER_PRIVATE_KEY = Undefined
    /\ signer = NoSigner
    /\ signatures = {}
    /\ signCount = 0
    /\ InitRoutes

routeFrame == <<env_YELLOW_MOCK_MODE, connVars, lastCall, heldVars, asyncVars, signerVars>>

\* a request slot is free for the next request
Free(r) == requests[r].pc \in { "idle", "done" } /\ started < MaxRequests

\* POST /api/bounties, up to the await of openChannel: validation, bountyId,
\* openChannel (whose body runs at the call)
CreateStart(r) ==
    /\ Free(r)
    /\ \E reward \in CreateRewards, posterAddress \in CreatePosters, now \in Times,
          r1 \in RandomSuffixes, r2 \in RandomSuffixes :
         \E t1 \in ReadClock(now) :
           LET req == [IdleRequest EXCEPT !.route = "create", !.address = posterAddress,
                                          !.now = now]
               out == openChannel(channelCache,
                                  [ poster |-> posterAddress, agent |-> ZeroAddress,
                                    deposit |-> reward, token |-> "USDC" ],
                                  t1, r1, t1, r2, t1)
               bounty ==
                   [ exists |-> TRUE,
                     id |-> << "bounty", now >>,
                     reward |-> reward,
                     status |-> "OPEN",
                     posterAddress |-> toLowerCase(posterAddress),
                     yellowChannelId |-> IF out.threw = "" THEN out.channelId ELSE << >>,
                     yellowSessionId |-> IF out.threw = "" THEN out.sessionId ELSE << >>,
                     createdAt |-> now,
                     assignedAgentId |-> Undefined,
                     assignedAgentAddress |-> << >>,
                     completedAt |-> -1,
                     disputeStatus |-> Undefined,
                     disputeReason |-> Undefined,
                     disputeTimestamp |-> -1,
                     disputeInitiator |-> << >>,
                     disputeId |-> << >> ]
           IN  IF reward < 1
               THEN /\ requests' = [requests EXCEPT ![r] = Respond(req, 400, "INVALID_REWARD")]
                    /\ UNCHANGED channelCache
               ELSE IF ~isAddress(posterAddress)
               THEN /\ requests' = [requests EXCEPT ![r] =
                                       Respond(req, 400, "INVALID_POSTER_ADDRESS")]
                    /\ UNCHANGED channelCache
               ELSE /\ channelCache' = out.cache
                    /\ requests' = [requests EXCEPT ![r] =
                                       [req EXCEPT !.pc = "setDoc", !.id = bounty.id,
                                                   !.bounty = bounty]]
    /\ started' = started + 1
    /\ UNCHANGED <<bounties, agents, createdCount, settleCount, routeFrame>>

\* await setDoc(doc(db, 'bounties', bountyId), bounty), and the response
CreateSetDoc(r) ==
    /\ requests[r].route = "create"
    /\ requests[r].pc = "setDoc"
    /\ bounties' = SetDoc(bounties, requests[r].id, requests[r].bounty)
    /\ createdCount' = createdCount + 1
    /\ requests' = [requests EXCEPT ![r] = Respond(@, 200, "")]
    /\ UNCHANGED <<channelCache, agents, started, settleCount, routeFrame>>

\* POST /api/bounties/:id/claim, as the lifecycle document describes it: an
\* agent claims an OPEN bounty
ClaimBounty ==
    \E id \in DOMAIN bounties, agentId \in AgentIds :
        /\ bounties[id].status = "OPEN"
        /\ bounties' = UpdateDoc(bounties, id,
                                 [ status |-> "CLAIMED", assignedAgentId |-> agentId,
                                   assignedAgentAddress |-> << "b", "b" >> ])
        /\ UNCHANGED <<channelCache, agents, requests, started, createdCount, settleCount,
                       routeFrame>>

\* POST /api/bounties/:id/submit, as the lifecycle document describes it: the
\* assigned agent submits its work
SubmitWork ==
    \E id \in DOMAIN bounties :
        /\ bounties[id].status = "CLAIMED"
        /\ bounties' = UpdateDoc(bounties, id, [ status |-> "SUBMITTED" ])
        /\ UNCHANGED <<channelCache, agents, requests, started, createdCount, settleCount,
                       routeFrame>>

\* POST /api/bounties/:id/approve, up to the await of getDoc
ApproveStart(r) ==
    /\ Free(r)
    /\ \E id \in BountyIds, posterAddress \in ApproveCallers, approved \in BOOLEAN :
         LET req == [IdleRequest EXCEPT !.route = "approve", !.id = id,
                                        !.address = posterAddress, !.approved = approved]
         IN  requests' = [requests EXCEPT ![r] =
                             IF posterAddress = << >>
                             THEN Respond(req, 400, "INVALID_POSTER")
                             ELSE [req EXCEPT !.pc = "getDoc"]]
    /\ started' = started + 1
    /\ UNCHANGED <<channelCache, bounties, agents, createdCount, settleCount, routeFrame>>

\* POST /api/bounties/:id/dispute, up to the await of getDoc
DisputeStart(r) ==
    /\ Free(r)
    /\ \E id \in BountyIds, initiatorAddress \in DisputeInitiators,
          reason \in DisputeReasons :
         LET req == [IdleRequest EXCEPT !.route = "dispute", !.id = id,
                                        !.address = initiatorAddress, !.reason = reason]
         IN  requests' = [requests EXCEPT ![r] =
                             IF ~isAddress(initiatorAddress)
                             THEN Respond(req, 400, "INVALID_ADDRESS")
                             ELSE IF Trim(reason) = ""
                             THEN Respond(req, 400, "INVALID_REASON")
                             ELSE [req EXCEPT !.pc = "getDoc"]]
    /\ started' = started + 1
    /\ UNCHANGED <<channelCache, bounties, agents, createdCount, settleCount, routeFrame>>

\* const bountyDoc = await getDoc(bountyRef): the store serves the read
GetDocServed(r) ==
    /\ requests[r].pc = "getDoc"
    /\ requests' = [requests EXCEPT ![r] =
                       [@ EXCEPT !.pc = "gotDoc",
                                 !.bounty = GetDoc(bounties, requests[r].id)]]
    /\ UNCHANGED <<channelCache, bounties, agents, started, createdCount, settleCount,
                   routeFrame>>

\* approve, after getDoc: the checks; then updateAllocation (approved, with a
\* channel), or the write of REJECTED
ApproveCheck(r) ==
    /\ requests[r].route = "approve"
    /\ requests[r].pc = "gotDoc"
    /\ LET req == requests[r]
           bounty == req.bounty
       IN  IF ~bounty.exists
           THEN /\ requests' = [requests EXCEPT ![r] = Respond(req, 404, "BOUNTY_NOT_FOUND")]
                /\ UNCHANGED <<channelCache, bounties>>
           ELSE IF bounty.status # "SUBMITTED"
           THEN /\ requests' = [requests EXCEPT ![r] = Respond(req, 400, "INVALID_STATUS")]
                /\ UNCHANGED <<channelCache, bounties>>
           ELSE IF bounty.posterAddress # toLowerCase(req.address)
           THEN /\ requests' = [requests EXCEPT ![r] = Respond(req, 403, "NOT_POSTER")]
                /\ UNCHANGED <<channelCache, bounties>>
           ELSE IF req.approved
           THEN IF bounty.yellowChannelId # << >>
                THEN LET out == updateAllocation(channelCache, bounty.yellowChannelId,
                                    ObjectLiteral2(bounty.assignedAgentAddress, bounty.reward,
                                                   bounty.posterAddress, 0))
                     IN  /\ channelCache' = out.cache
                         /\ requests' = [requests EXCEPT ![r] =
                                            IF out.threw # ""
                                            THEN Respond(req, 500, "SERVER_ERROR")
                                            ELSE [req EXCEPT !.pc = "updated"]]
                         /\ UNCHANGED bounties
                ELSE /\ requests' = [requests EXCEPT ![r] = [req EXCEPT !.pc = "closed"]]
                     /\ UNCHANGED <<channelCache, bounties>>
           ELSE \E now \in Times :
                  /\ bounties' = UpdateDoc(bounties, req.id,
                                           [ status |-> "REJECTED", completedAt |-> now ])
                  /\ requests' = [requests EXCEPT ![r] = Respond(req, 200, "REJECTED")]
                  /\ UNCHANGED channelCache
    /\ UNCHANGED <<agents, started, createdCount, settleCount, routeFrame>>

\* await closeChannel(bounty.yellowChannelId)
ApproveClose(r) ==
    /\ requests[r].route = "approve"
    /\ requests[r].pc = "updated"
    /\ \E h1 \in HexFractions, h2 \in HexFractions :
         LET req == requests[r]
             out == closeChannel(channelCache, req.bounty.yellowChannelId, h1, h2)
         IN  /\ channelCache' = out.cache
             /\ requests' = [requests EXCEPT ![r] =
                                IF out.threw # ""
                                THEN Respond(req, 500, "SERVER_ERROR")
                                ELSE [req EXCEPT !.pc = "closed"]]
             /\ settleCount' = IF out.threw # ""
                               THEN settleCount
                               ELSE MapSet(settleCount, req.id, CountOf(settleCount, req.id) + 1)
    /\ UNCHANGED <<bounties, agents, started, createdCount, routeFrame>>

\* await updateDoc(bountyRef, { status: 'COMPLETED', completedAt: Date.now() })
ApproveComplete(r) ==
    /\ requests[r].route = "approve"
    /\ requests[r].pc = "closed"
    /\ \E now \in Times :
         bounties' = UpdateDoc(bounties, requests[r].id,
                               [ status |-> "COMPLETED", completedAt |-> now ])
    /\ requests' = [requests EXCEPT ![r] =
                       IF @.bounty.assignedAgentId # Undefined
                       THEN [@ EXCEPT !.pc = "completed"]
                       ELSE Respond(@, 200, "COMPLETED")]
    /\ UNCHANGED <<channelCache, agents, started, createdCount, settleCount, routeFrame>>

\* await updateDoc(agentRef, { 'reputation.totalJobs': increment(1), ... })
ApproveReputation(r) ==
    /\ requests[r].route = "approve"
    /\ requests[r].pc = "completed"
    /\ agents' = [agents EXCEPT ![requests[r].bounty.assignedAgentId].totalJobs = @ + 1]
    /\ requests' = [requests EXCEPT ![r] = Respond(@, 200, "COMPLETED")]
    /\ UNCHANGED <<channelCache, bounties, started, createdCount, settleCount, routeFrame>>

\* dispute, after getDoc: the checks, then the write of the dispute fields
DisputeCheck(r) ==
    /\ requests[r].route = "dispute"
    /\ requests[r].pc = "gotDoc"
    /\ LET req == requests[r]
           bounty == req.bounty
           initiatorLower == toLowerCase(req.address)
       IN  IF ~bounty.exists
           THEN /\ requests' = [requests EXCEPT ![r] = Respond(req, 404, "BOUNTY_NOT_FOUND")]
                /\ UNCHANGED bounties
           ELSE IF bounty.status \notin { "CLAIMED", "SUBMITTED" }
           THEN /\ requests' = [requests EXCEPT ![r] =
                                   Respond(req, 400, "INVALID_STATUS_FOR_DISPUTE")]
                /\ UNCHANGED bounties
           ELSE IF /\ bounty.posterAddress # initiatorLower
                   /\ bounty.assignedAgentAddress # initiatorLower
           THEN /\ requests' = [requests EXCEPT ![r] = Respond(req, 403, "NOT_PARTICIPANT")]
                /\ UNCHANGED bounties
           ELSE IF bounty.disputeStatus = "PENDING"
           THEN /\ requests' = [requests EXCEPT ![r] = Respond(req, 400, "ALREADY_DISPUTED")]
                /\ UNCHANGED bounties
           ELSE \E now \in Times :
                  /\ bounties' = UpdateDoc(bounties, req.id,
                                           [ disputeStatus |-> "PENDING",
                                             disputeReason |-> Trim(req.reason),
                                             disputeTimestamp |-> now,
                                             disputeInitiator |-> initiatorLower,
                                             disputeId |-> << "dispute", req.id, now >> ])
                  /\ requests' = [requests EXCEPT ![r] = Respond(req, 200, "")]
    /\ UNCHANGED <<channelCache, agents, started, createdCount, settleCount, routeFrame>>

\* The server process is restarted: the module is loaded again with an empty
\* channelCache and the requests in flight are lost; Firestore keeps its
\* documents.
Restart ==
    /\ channelCache # << >>
    /\ channelCache' = << >>
    /\ requests' = [r \in ReqIds |-> IF requests[r].pc = "done" THEN requests[r]
                                     ELSE IdleRequest]
    /\ UNCHANGED <<bounties, agents, started, createdCount, settleCount, routeFrame>>

NextRoute ==
    \/ \E r \in ReqIds : CreateStart(r)
    \/ \E r \in ReqIds : CreateSetDoc(r)
    \/ ClaimBounty
    \/ SubmitWork
    \/ \E r \in ReqIds : ApproveStart(r)
    \/ \E r \in ReqIds : DisputeStart(r)
    \/ \E r \in ReqIds : GetDocServed(r)
    \/ \E r \in ReqIds : ApproveCheck(r)
    \/ \E r \in ReqIds : ApproveClose(r)
    \/ \E r \in ReqIds : ApproveComplete(r)
    \/ \E r \in ReqIds : ApproveReputation(r)
    \/ \E r \in ReqIds : DisputeCheck(r)
    \/ Restart

SpecRoute == InitRoute /\ [][NextRoute]_vars

(***************************************************************************)
(* Properties of the channel operations.                                   *)
(***************************************************************************)
Stored(id) == MapGet(channelCache, id)

IsMockLine(line) ==
    line \in { "[MOCK] Yellow channel opened",
               "[MOCK] Yellow channel allocation updated",
               "[MOCK] Yellow channel closed" }

\* the call just made ran one of the *Mock implementations to its end
RanSimulation(call) == \E i \in DOMAIN call.log : IsMockLine(call.log[i])

\* C1: updateAllocation on an existing channel with a map whose values do not
\* sum to the record's deposit is rejected with an allocation-imbalance error and
\* leaves the stored record's allocation as it was.
C1_ImbalanceRejected ==
    [][ ( /\ lastCall'.op = "updateAllocation"
          /\ MapHas(channelCache, lastCall'.channelId)
          /\ SumValues(lastCall'.newAllocation)
                # MapGet(channelCache, lastCall'.channelId).deposit )
        => ( /\ lastCall'.threw = "Allocation imbalance"
             /\ MapHas(channelCache', lastCall'.channelId)
             /\ MapGet(channelCache', lastCall'.channelId).allocation
                    = MapGet(channelCache, lastCall'.channelId).allocation ) ]_vars

\* C2: in every reachable state every stored record's allocation values sum to
\* the record's deposit, also directly after openChannel for a poster and an agent
\* that are the same address once lower-cased.
C2_Conservation ==
    \A id \in DOMAIN channelCache :
        SumValues(Stored(id).allocation) = Stored(id).deposit

\* C3: directly after openChannel(poster, agent, deposit) returned {channelId,
\* sessionId}, getChannel(channelId) is a record with status OPEN, that
\* sessionId, the requested deposit, participants [poster, agent] lower-cased,
\* and an allocation giving the poster the full deposit and the agent zero.
C3_OpenStoresRequestedRecord ==
    (lastCall.op = "openChannel" /\ lastCall.threw = "")
    => LET r == getChannel(channelCache, lastCall.channelId)
           p == toLowerCase(lastCall.poster)
           a == toLowerCase(lastCall.agent)
       IN  /\ r # NullChannel
           /\ r.status = "OPEN"
           /\ r.sessionId = lastCall.sessionId
           /\ r.deposit = lastCall.deposit
           /\ r.participants = <<p, a>>
           /\ DOMAIN r.allocation = {p, a}
           /\ r.allocation[p] = lastCall.deposit
           /\ r.allocation[a] = 0

\* C4: updateAllocation and closeChannel on a channelId that is not in the
\* store throw "Channel not found", leave the whole store as it was (no record
\* created, none modified) and start no connection to the coordinator.
C4_MissingChannelRejected ==
    [][ ( /\ lastCall'.op \in {"updateAllocation", "closeChannel"}
          /\ ~MapHas(channelCache, lastCall'.channelId) )
        => ( /\ lastCall'.threw = "Channel not found"
             /\ channelCache' = channelCache
             /\ sockets' = sockets
             /\ connectionPromise' = connectionPromise
             /\ wsConnection' = wsConnection ) ]_vars

C4_Witness ==
    /\ lastCall.op \in {"updateAllocation", "closeChannel"}
    /\ lastCall.threw = "Channel not found"
    /\ ~MapHas(channelCache, lastCall.channelId)
    /\ Cardinality(DOMAIN channelCache) = 2

\* C5: closeChannel on an existing record sets its status to CLOSED, keeps its
\* allocation as it was when closeChannel was called, and returns a result that
\* carries a settlement transaction reference.
C5_CloseSettles ==
    [][ ( /\ lastCall'.op = "closeChannel"
          /\ MapHas(channelCache, lastCall'.channelId) )
        => ( /\ lastCall'.threw = ""
             /\ MapHas(channelCache', lastCall'.channelId)
             /\ MapGet(channelCache', lastCall'.channelId).status = "CLOSED"
             /\ MapGet(channelCache', lastCall'.channelId).allocation
                    = MapGet(channelCache, lastCall'.channelId).allocation
             /\ Len(lastCall'.txHash) = 3
             /\ lastCall'.txHash[1] = "0x" ) ]_vars

C5_Witness ==
    /\ lastCall.op = "closeChannel"
    /\ lastCall.threw = ""
    /\ MapHas(channelCache, lastCall.channelId)
    /\ Stored(lastCall.channelId).status = "CLOSED"
    /\ Stored(lastCall.channelId).deposit = 1
    /\ <<"b", "b">> \in DOMAIN Stored(lastCall.channelId).allocation
    /\ Stored(lastCall.channelId).allocation[<<"b", "b">>] = 1

\* the record object stored under id before the step is the one stored under it
\* after the step: no openChannel of this step stored a new object under id
SameRecordObject(id) ==
    /\ MapHas(channelCache', id)
    /\ ~(lastCall'.op = "openChannel" /\ lastCall'.channelId = id)

C7_AllocationFinalAfterClose ==
    [][ \A id \in DOMAIN channelCache :
          ( /\ MapGet(channelCache, id).status = "CLOSED"
            /\ lastCall'.op = "updateAllocation"
            /\ lastCall'.channelId = id )
          => ( /\ MapHas(channelCache', id)
               /\ MapGet(channelCache', id).allocation
                      = MapGet(channelCache, id).allocation ) ]_vars

\* C8: with YELLOW_MOCK_MODE = 'false', updateAllocation and closeChannel never
\* report success on the basis of the local simulation: neither returns
\* normally after running the mock path.
C8_NoSimulatedSuccessInRealMode ==
    ( /\ env_YELLOW_MOCK_MODE = "false"
      /\ lastCall.op \in {"updateAllocation", "closeChannel"}
      /\ lastCall.threw = "" )
    => ~RanSimulation(lastCall)

\* C9: openChannel never throws and always returns {channelId, sessionId} with
\* an OPEN record stored under channelId, whatever the simulation-mode setting
\* and with no coordinator connection.
C9_OpenAlwaysSucceeds ==
    lastCall.op = "openChannel"
    => /\ lastCall.threw = ""
       /\ lastCall.channelId \in ChannelIds
       /\ Len(lastCall.sessionId) = 3
       /\ getChannel(channelCache, lastCall.channelId) # NullChannel
       /\ Stored(lastCall.channelId).status = "OPEN"
       /\ Stored(lastCall.channelId).channelId = lastCall.channelId
       /\ Stored(lastCall.channelId).sessionId = lastCall.sessionId

C9_Witness ==
    /\ env_YELLOW_MOCK_MODE = "false"
    /\ wsConnection = Null
    /\ lastCall.op = "openChannel"
    /\ lastCall.threw = ""
    /\ Cardinality(DOMAIN channelCache) = 2

\* C10: the set of stored channelIds only grows, and only by the id a successful
\* openChannel returns: an id getChannel once answered with a record is answered
\* with a record ever after, and every id openChannel returned is stored.
C10_StoreOnlyGrows ==
    [][ /\ \A id \in ChannelIdArgs :
              getChannel(channelCache, id) # NullChannel
              => getChannel(channelCache', id) # NullChannel
        /\ (DOMAIN channelCache' # DOMAIN channelCache)
              => /\ lastCall'.op = "openChannel"
                 /\ lastCall'.threw = ""
                 /\ DOMAIN channelCache' = (DOMAIN channelCache) \cup {lastCall'.channelId}
        /\ (lastCall'.op = "openChannel" /\ lastCall'.threw = "")
              => getChannel(channelCache', lastCall'.channelId) # NullChannel ]_vars

C10_Witness ==
    /\ Cardinality(DOMAIN channelCache) = 2
    /\ lastCall.op = "closeChannel"
    /\ lastCall.threw = ""
    /\ \A id \in DOMAIN channelCache : Stored(id).status = "CLOSED"

\* C11: every key of a stored record's allocation map is a lower-cased address
\* that is one of that record's two participants: no allocation attributes
\* funds to an address outside participants.
C11_AllocationKeysAreParticipants ==
    \A id \in DOMAIN channelCache :
      \A k \in DOMAIN Stored(id).allocation :
        /\ k = toLowerCase(k)
        /\ \E i \in 1 .. 2 : k = Stored(id).participants[i]

\* C12: updateAllocation on a channel changes only the allocation field of that
\* channel's record, closeChannel on a channel changes only its status field,
\* neither changes the record of another channelId, and the participants of a
\* record object never change.
C12_OperationsFrame ==
    [][ /\ lastCall'.op = "updateAllocation"
            => /\ DOMAIN channelCache' = DOMAIN channelCache
               /\ \A id \in DOMAIN channelCache :
                     IF id = lastCall'.channelId
                     THEN [Stored(id) EXCEPT !.allocation =
                               MapGet(channelCache', id).allocation]
                            = MapGet(channelCache', id)
                     ELSE MapGet(channelCache', id) = Stored(id)
        /\ lastCall'.op = "closeChannel"
            => /\ DOMAIN channelCache' = DOMAIN channelCache
               /\ \A id \in DOMAIN channelCache :
                     IF id = lastCall'.channelId
                     THEN [Stored(id) EXCEPT !.status =
                               MapGet(channelCache', id).status]
                            = MapGet(channelCache', id)
                     ELSE MapGet(channelCache', id) = Stored(id)
        /\ \A id \in DOMAIN channelCache :
              SameRecordObject(id)
              => MapGet(channelCache', id).participants = Stored(id).participants ]_vars

\* two records with different contents are stored, and the call just made
\* wrote a new allocation into one of them
C12_Witness ==
    /\ lastCall.op = "updateAllocation"
    /\ lastCall.threw = ""
    /\ Cardinality(DOMAIN channelCache) = 2
    /\ Stored(lastCall.channelId).allocation = lastCall.newAllocation
    /\ \E other \in DOMAIN channelCache :
          /\ other # lastCall.channelId
          /\ Stored(other).allocation # lastCall.newAllocation
          /\ Stored(other).status = "CLOSED"
          /\ Stored(lastCall.channelId).status = "OPEN"

\* C18: the store never holds a record with status PENDING or CLOSING: every
\* record getChannel can return is OPEN or CLOSED.
C18_OnlyOpenOrClosed ==
    \A id \in ChannelIdArgs :
      getChannel(channelCache, id) # NullChannel
      => getChannel(channelCache, id).status \in {"OPEN", "CLOSED"}

\* the call just made closed one record while another one is still open
C18_Witness ==
    /\ lastCall.op = "closeChannel"
    /\ lastCall.threw = ""
    /\ Stored(lastCall.channelId).status = "CLOSED"
    /\ \E other \in DOMAIN channelCache : Stored(other).status = "OPEN"

\* C13: callers only get read-only snapshots: what the store holds changes
\* only in a step of openChannel, updateAllocation or closeChannel, never by a
\* write to the object getChannel returned or to the map a caller passed to
\* updateAllocation.
C13_StoreChangesOnlyThroughOperations ==
    [][ channelCache' # channelCache
        => lastCall'.op \in {"openChannel", "updateAllocation", "closeChannel"} ]_vars

(***************************************************************************)
(* Properties of the coordinator connection.                               *)
(***************************************************************************)
Connecting == { s \in DOMAIN sockets : sockets[s].readyState = "CONNECTING" }

\* C14: while a connection attempt is in flight every getConnection joins it:
\* at no time are two sockets that getConnection created in the CONNECTING state.
C14_SingleAttemptInFlight == Cardinality(Connecting) <= 1

\* C15: when the connect timer of an attempt that has not reached the open
\* state expires, the attempt's promise is rejected (with the connection-timeout
\* error if it was still pending), the socket is closed and the pending-attempt
\* state is cleared, so that the next getConnection call neither joins this
\* attempt nor returns its socket: without an open connection it starts a new
\* attempt.
C15_TimeoutRejectsAndClears ==
    [][ \A s \in DOMAIN sockets :
          ( /\ sockets[s].timer
            /\ ~sockets'[s].timer
            /\ sockets[s].readyState # "OPEN"
            /\ sockets[s].promise # "resolved" )
          => /\ sockets'[s].promise = "rejected"
             /\ sockets[s].promise = "pending"
                  => sockets'[s].reason = "Connection timeout"
             /\ sockets'[s].readyState \in { "CLOSING", "CLOSED" }
             /\ connectionPromise' = Null
             /\ wsConnection' # s ]_vars

\* an attempt timed out while connecting, and the next getConnection call
\* started a new attempt
C15_Witness ==
    \E s \in DOMAIN sockets :
      /\ sockets[s].promise = "rejected"
      /\ sockets[s].reason = "Connection timeout"
      /\ sockets[s].readyState = "CLOSING"
      /\ connResult = << "promise", s + 1 >>
      /\ connectionPromise = s + 1
      /\ sockets[s + 1].readyState = "CONNECTING"

\* the promise of attempt s is resolved or rejected
Settled(s) == s \in DOMAIN sockets /\ sockets[s].promise # "pending"

\* C16: every promise getConnection returns is eventually settled: resolved by
\* the open event, or rejected by an error event, by the constructor's exception
\* or by the connect timer.
C16_EveryCallSettles ==
    \A s \in 1 .. MaxSockets : (s \in DOMAIN sockets) ~> Settled(s)

\* one attempt was resolved by its open event, one rejected by an error event
\* and one rejected by its timer
C16_Witness ==
    /\ \E s \in DOMAIN sockets : sockets[s].promise = "resolved"
    /\ \E s \in DOMAIN sockets : sockets[s].promise = "rejected" /\ sockets[s].reason = "error"
    /\ \E s \in DOMAIN sockets :
         sockets[s].promise = "rejected" /\ sockets[s].reason = "Connection timeout"

(***************************************************************************)
(* Properties of concurrent calls.                                         *)
(***************************************************************************)
\* the cache left by running one call alone
ApplyCall(cache, call) ==
    IF call.op = "updateAllocation"
    THEN updateAllocation(cache, call.channelId, call.newAllocation).cache
    ELSE closeChannel(cache, call.channelId, "", "").cache

\* the cache left by running calls[order[i]], ..., calls[order[n]] one after another
RECURSIVE SerialCache(_, _, _, _)
SerialCache(cache, callSeq, order, i) ==
    IF i > Len(callSeq)
    THEN cache
    ELSE SerialCache(ApplyCall(cache, callSeq[order[i]]), callSeq, order, i + 1)

\* C17: concurrent updateAllocation and closeChannel calls are serialized: no
\* call is ever suspended inside its read-modify-write, and the store always
\* equals the result of running the calls begun so far one after another in
\* some order.
C17_Serialized ==
    /\ \A c \in Callers : calls[c].pc # "suspended"
    /\ \E order \in Permutations(1 .. Len(history)) :
         channelCache = SerialCache(baseCache, history, order, 1)

\* two callers have a call in flight at once on the same stored channel: an
\* updateAllocation and a closeChannel, both settled, neither caller resumed
C17_Witness ==
    /\ calls["c1"].pc = "settled"
    /\ calls["c2"].pc = "settled"
    /\ calls["c1"].op = "updateAllocation"
    /\ calls["c2"].op = "closeChannel"
    /\ calls["c1"].channelId = calls["c2"].channelId
    /\ calls["c1"].threw = ""
    /\ calls["c2"].threw = ""
    /\ MapHas(channelCache, calls["c1"].channelId)
    /\ Stored(calls["c1"].channelId).status = "CLOSED"
    /\ Stored(calls["c1"].channelId).allocation = calls["c1"].newAllocation
    /\ Stored(calls["c1"].channelId).allocation
         # MapGet(baseCache, calls["c1"].channelId).allocation

(***************************************************************************)
(* Properties of the server signer.                                        *)
(***************************************************************************)
\* the last call of getServerSigner has returned or thrown
SignerRequested == signer # NoSigner

\* C19: getServerSigner never throws and always returns a signer; it returns
\* the mock signer exactly when YELLOW_SERVER_PRIVATE_KEY is unset or the real
\* signer cannot be constructed from it, and the real signer otherwise.
C19_SignerAlwaysAvailable ==
    SignerRequested
    => /\ signer.threw = ""
       /\ signer.kind \in { "mockSigner", "account.signMessage" }
       /\ signer.kind = "mockSigner"
            <=> ( \/ env_YELLOW_SERVER_PRIVATE_KEY = Undefined
                  \/ privateKeyToAccountThrows(env_YELLOW_SERVER_PRIVATE_KEY) )

\* a key is set from which no account can be built, getServerSigner returned
\* the mock signer and that signer signed a message
C19_Witness ==
    /\ env_YELLOW_SERVER_PRIVATE_KEY
         = "0x0000000000000000000000000000000000000000000000000000000000000000"
    /\ signer.kind = "mockSigner"
    /\ signer.log = << "Failed to create server signer:" >>
    /\ \E sg \in signatures : sg.kind = "mockSigner"

IsHexDigit(c) == \E i \in DOMAIN HexDigits : HexDigits[i] = c

\* C20: the mock signer is deterministic and fixed-shape: two calls with the same
\* message give the same value, and every value is '0x' followed by exactly 128
\* hex characters, the hex digest of the message twice.
C20_MockSignatureShape ==
    \A sg \in signatures :
      sg.kind = "mockSigner"
      => /\ Len(sg.signature) = 2 + 128
         /\ SubSeq(sg.signature, 1, 2) = << "0", "x" >>
         /\ \A i \in 3 .. Len(sg.signature) : IsHexDigit(sg.signature[i])
         /\ SubSeq(sg.signature, 3, 66) = SubSeq(sg.signature, 67, 130)
         /\ \A i \in 1 .. DigestBytes :
              SubSeq(sg.signature, 2 * i + 1, 2 * i + 2)
                = PadStart2(ToString16(Digest(sg.message)[i]))
         /\ \A other \in signatures :
              (other.kind = "mockSigner" /\ other.message = sg.message)
              => other.signature = sg.signature

\* the mock signer signed three times, one message twice and another once,
\* and a digest byte below 16 was written
C20_Witness ==
    /\ signCount = 3
    /\ Cardinality({ sg \in signatures : sg.kind = "mockSigner" }) = 2
    /\ \E sg \in signatures : \E i \in 1 .. DigestBytes : Digest(sg.message)[i] < 16

(***************************************************************************)
(* Further properties of the coordinator connection.                       *)
(***************************************************************************)
\* C23: a connected socket is reused and a closed one is replaced: while a
\* socket that getConnection established is open no new socket is created, and
\* after the shared socket was closed or failed the next getConnection call
\* finds no open shared socket and no pending attempt, so it starts a new one.
C23_OpenSocketReused ==
    [][ /\ (\E s \in DOMAIN sockets : sockets[s].readyState = "OPEN")
            => Len(sockets') = Len(sockets)
        /\ \A s \in DOMAIN sockets :
             ( /\ wsConnection = s
               /\ sockets[s].readyState = "OPEN"
               /\ sockets'[s].readyState # "OPEN" )
             => /\ connectionPromise' = Null
                /\ ~( /\ wsConnection' # Null
                      /\ sockets'[wsConnection'].readyState = "OPEN" ) ]_vars

\* C25: late events of an earlier socket never disturb a newer connection: a
\* step in which the close event or the connect timer of socket s is handled
\* leaves wsConnection and connectionPromise as they are when they refer to an
\* attempt made after s.
C25_LateEventsHarmless ==
    [][ \A s \in DOMAIN sockets :
          ( \/ sockets[s].readyState # "CLOSED" /\ sockets'[s].readyState = "CLOSED"
            \/ sockets[s].timer /\ ~sockets'[s].timer )
          => /\ wsConnection > s => wsConnection' = wsConnection
             /\ connectionPromise > s => connectionPromise' = connectionPromise ]_vars

(***************************************************************************)
(* Further properties of the channel operations.                           *)
(***************************************************************************)
\* C28: a closeChannel on a channel that is already CLOSED does not settle it
\* again: it returns no settlement transaction reference.
C28_ClosedChannelNotSettledAgain ==
    [][ ( /\ lastCall'.op = "closeChannel"
          /\ MapHas(channelCache, lastCall'.channelId)
          /\ MapGet(channelCache, lastCall'.channelId).status = "CLOSED" )
        => lastCall'.txHash = << >> ]_vars

(***************************************************************************)
(* Properties of the bounty routes.                                        *)
(***************************************************************************)
\* the request in slot r passes the checks of the approve route: the bounty
\* it read exists, is SUBMITTED and was posted by the caller
PassedApproveChecks(r) ==
    /\ requests[r].route = "approve"
    /\ requests[r].bounty.exists
    /\ requests[r].bounty.status = "SUBMITTED"
    /\ requests[r].bounty.posterAddress = toLowerCase(requests[r].address)

\* C21: an approve request with approved = true that passed the checks is
\* answered with the completed approval even when updateAllocation or
\* closeChannel fails: it is never answered with the server error.
C21_ApprovalSurvivesSettlementFailure ==
    \A r \in ReqIds :
        ( /\ PassedApproveChecks(r)
          /\ requests[r].approved
          /\ requests[r].pc = "done" )
        => /\ requests[r].code = "COMPLETED"
           /\ bounties[requests[r].id].status = "COMPLETED"

\* the step is the write of a bounty's status by the approve request in slot r
WritesStatus(r) ==
    /\ requests[r].route = "approve"
    /\ \/ requests[r].pc = "closed" /\ requests'[r].pc \in { "completed", "done" }
       \/ requests[r].pc = "gotDoc" /\ requests'[r].code = "REJECTED"

\* C22: the approve route writes a bounty's status only while the bounty is
\* SUBMITTED and for its poster; it writes COMPLETED for a bounty with a
\* channel only when that channel is CLOSED with the whole reward allocated
\* to the agent and nothing to the poster; a rejection writes REJECTED and
\* leaves the channels as they were.
C22_ApproveStatusChanges ==
    [][ \A r \in ReqIds :
          WritesStatus(r) =>
            LET id == requests[r].id
                bounty == bounties[id]
                ch == bounty.yellowChannelId
            IN  /\ bounty.status = "SUBMITTED"
                /\ bounty.posterAddress = toLowerCase(requests[r].address)
                /\ requests[r].approved =>
                     /\ bounties'[id].status = "COMPLETED"
                     /\ ch # << >> =>
                          /\ MapHas(channelCache, ch)
                          /\ MapGet(channelCache, ch).status = "CLOSED"
                          /\ MapGet(channelCache, ch).allocation =
                                ObjectLiteral2(bounty.assignedAgentAddress, bounty.reward,
                                               bounty.posterAddress, 0)
                /\ ~requests[r].approved =>
                     /\ bounties'[id].status = "REJECTED"
                     /\ channelCache' = channelCache ]_vars

\* the step is the one in which the dispute request in slot r is answered
DisputeAnswered(r) ==
    /\ requests'[r].route = "dispute"
    /\ requests[r].pc # "done"
    /\ requests'[r].pc = "done"

\* C24: the dispute route opens a dispute (disputeStatus PENDING with the
\* reason, the initiator and a timestamp) only for a stored bounty that is
\* CLAIMED or SUBMITTED, for its poster or its assigned agent, and with no
\* dispute PENDING; every other request is answered with an error and leaves
\* the documents unchanged; the route never changes a status field.
C24_DisputeOpensOnlyWhenAllowed ==
    [][ \A r \in ReqIds :
          DisputeAnswered(r) =>
            LET id == requests'[r].id
                initiatorLower == toLowerCase(requests'[r].address)
            IN  IF requests'[r].http = 200
                THEN /\ id \in DOMAIN bounties
                     /\ bounties[id].status \in { "CLAIMED", "SUBMITTED" }
                     /\ initiatorLower \in { bounties[id].posterAddress,
                                             bounties[id].assignedAgentAddress }
                     /\ bounties[id].disputeStatus # "PENDING"
                     /\ bounties'[id].disputeStatus = "PENDING"
                     /\ bounties'[id].disputeReason = Trim(requests'[r].reason)
                     /\ bounties'[id].disputeInitiator = initiatorLower
                     /\ bounties'[id].disputeTimestamp \in Times
                     /\ bounties'[id].status = bounties[id].status
                     /\ \A other \in DOMAIN bounties \ { id } :
                            bounties'[other] = bounties[other]
                ELSE bounties' = bounties ]_vars

\* C26: approval takes effect at most once per bounty, also when approve
\* requests are handled at once: the channel of a bounty is settled at most
\* once, and an agent's reputation.totalJobs counts at most one job per
\* stored bounty.
C26_ApprovalAtMostOnce ==
    /\ \A id \in DOMAIN settleCount : settleCount[id] <= 1
    /\ \A a \in AgentIds : agents[a].totalJobs <= Cardinality(DOMAIN bounties)

\* C27: COMPLETED and REJECTED are terminal for the approve route, whether
\* its requests run one after the other or at once: no step of an approve
\* request changes the status of a bounty that is COMPLETED or REJECTED, and
\* a bounty whose channel was settled by an approval is never REJECTED.
C27_CompletedRejectedTerminal ==
    [][ \A r \in ReqIds :
          WritesStatus(r) =>
            LET id == requests[r].id
            IN  /\ bounties[id].status \in { "COMPLETED", "REJECTED" }
                     => bounties'[id].status = bounties[id].status
                /\ CountOf(settleCount, id) > 0 => bounties'[id].status # "REJECTED" ]_vars

\* the step is one in which the approve request in slot r releases funds
\* (updateAllocation or closeChannel ran) or writes COMPLETED
ReleasesOrCompletes(r) ==
    /\ requests[r].route = "approve"
    /\ \/ requests[r].pc = "gotDoc" /\ requests'[r].pc = "updated"
       \/ requests[r].pc = "updated" /\ requests'[r].pc = "closed"
       \/ requests[r].pc = "closed" /\ requests'[r].pc \in { "completed", "done" }

\* C29: while a bounty's disputeStatus is PENDING the approve route neither
\* releases its funds nor marks it COMPLETED.
C29_NoApprovalWhileDisputed ==
    [][ \A r \in ReqIds :
          ReleasesOrCompletes(r) => bounties[requests[r].id].disputeStatus # "PENDING" ]_vars

\* C30: creating a bounty never overwrites an existing one, even when two are
\* created within the same millisecond: the create route stores its bounty
\* under an id no stored bounty has.
C30_CreateNeverOverwrites ==
    [][ \A r \in ReqIds :
          ( /\ requests[r].route = "create"
            /\ requests[r].pc = "setDoc"
            /\ requests'[r].pc = "done" )
          => requests[r].id \notin DOMAIN bounties ]_vars

====
